---- MODULE Spec2Model ----
(***************************************************************************)
(* Sayinvoice: the invoice document held by App, its autosave to           *)
(* localStorage, the derived totals (calculations) and the amount in words *)
(* (toWords).                                                              *)
(*                                                                         *)
(* Numbers.  A JavaScript number is modelled as an exact decimal           *)
(* m / 10^e (kind "fin", normalised so that m carries no trailing zero     *)
(* while e > 0), or as one of the non-finite values NaN, +Infinity,        *)
(* -Infinity, with the IEEE-754 rules for them.  Binary rounding error of  *)
(* finite results is not modelled.                                         *)
(*                                                                         *)
(* Strings built by toWords are modelled as the sequence of their          *)
(* space-separated words.                                                  *)
(***************************************************************************)
EXTENDS Integers, Sequences, FiniteSets, TLC

(***************************************************************************)
(* Numbers                                                                 *)
(***************************************************************************)
RECURSIVE Pow10(_)
Pow10(k) == IF k = 0 THEN 1 ELSE 10 * Pow10(k - 1)

RECURSIVE Norm(_, _)
Norm(m, e) ==
    IF e > 0 /\ m % 10 = 0 THEN Norm(m \div 10, e - 1)
    ELSE [kind |-> "fin", m |-> m, e |-> e]

Dec(m, e) == Norm(m, e)
Num(n) == Dec(n, 0)
NaN == [kind |-> "nan", m |-> 0, e |-> 0]
Infinity == [kind |-> "inf", m |-> 1, e |-> 0]
NegInfinity == [kind |-> "inf", m |-> -1, e |-> 0]

isFinite(a) == a.kind = "fin"

Sgn(a) == IF a.m > 0 THEN 1 ELSE IF a.m < 0 THEN -1 ELSE 0

Max(a, b) == IF a >= b THEN a ELSE b

\* a + b
NumAdd(a, b) ==
    IF a.kind = "nan" \/ b.kind = "nan" THEN NaN
    ELSE IF a.kind = "inf" THEN (IF b.kind = "inf" /\ b.m # a.m THEN NaN ELSE a)
    ELSE IF b.kind = "inf" THEN b
    ELSE LET e == Max(a.e, b.e)
         IN  Dec(a.m * Pow10(e - a.e) + b.m * Pow10(e - b.e), e)

\* -a
NumNeg(a) == IF a.kind = "nan" THEN NaN ELSE [a EXCEPT !.m = 0 - a.m]

\* a - b
NumSub(a, b) == NumAdd(a, NumNeg(b))

\* a * b
NumMul(a, b) ==
    IF a.kind = "nan" \/ b.kind = "nan" THEN NaN
    ELSE IF a.kind = "inf" \/ b.kind = "inf"
         THEN (IF Sgn(a) * Sgn(b) = 0 THEN NaN
               ELSE IF Sgn(a) * Sgn(b) > 0 THEN Infinity ELSE NegInfinity)
    ELSE Dec(a.m * b.m, a.e + b.e)

\* a / 100
NumDiv100(a) == IF a.kind = "fin" THEN Dec(a.m, a.e + 2) ELSE a

\* a < 0
NumNegative(a) == a.kind # "nan" /\ a.m < 0

\* Math.abs(a)
NumAbs(a) == IF a.kind = "nan" THEN NaN ELSE [a EXCEPT !.m = IF a.m < 0 THEN 0 - a.m ELSE a.m]

\* Math.floor(a), a finite and >= 0
NumFloor(a) == a.m \div Pow10(a.e)

\* Math.round((a - Math.floor(a)) * 100), a finite and >= 0: half rounds up
NumRoundFrac100(a) ==
    LET p == Pow10(a.e)
    IN  ((a.m % p) * 200 + p) \div (2 * p)

(***************************************************************************)
(* CalculationEngine: the calculations memo of App                         *)
(***************************************************************************)
\* invoice.items.reduce((acc, item) => acc + item.quantity * item.price, 0)
RECURSIVE reduceItems(_, _, _)
reduceItems(items, acc, i) ==
    IF i > Len(items) THEN acc
    ELSE reduceItems(items, NumAdd(acc, NumMul(items[i].quantity, items[i].price)), i + 1)

\* The taxes are added to each other, in the order of the source.
sumTaxes(cgstAmount, sgstAmount, igstAmount, genericTaxAmount) ==
    NumAdd(NumAdd(NumAdd(cgstAmount, sgstAmount), igstAmount), genericTaxAmount)

\* A bug the claims must notice: the first item is left out of the subtotal.
calculationsSkipFirst(inv) ==
    LET subtotal == reduceItems(inv.items, Num(0), 2)
        discountAmount == NumMul(subtotal, NumDiv100(inv.discountRate))
        taxableAmount == NumSub(subtotal, discountAmount)
        cgstAmount == NumMul(taxableAmount, NumDiv100(inv.cgstRate))
        sgstAmount == NumMul(taxableAmount, NumDiv100(inv.sgstRate))
        igstAmount == NumMul(taxableAmount, NumDiv100(inv.igstRate))
        genericTaxAmount == NumMul(taxableAmount, NumDiv100(inv.taxRate))
        taxAmount == sumTaxes(cgstAmount, sgstAmount, igstAmount, genericTaxAmount)
        total == NumAdd(taxableAmount, taxAmount)
    IN  [subtotal |-> subtotal, discountAmount |-> discountAmount,
         taxableAmount |-> taxableAmount, taxAmount |-> taxAmount, total |-> total,
         cgstAmount |-> cgstAmount, sgstAmount |-> sgstAmount,
         igstAmount |-> igstAmount, genericTaxAmount |-> genericTaxAmount]

\* A bug the claims must notice: the generic tax is left out of the total.
calculationsDropGeneric(inv) ==
    LET subtotal == reduceItems(inv.items, Num(0), 1)
        discountAmount == NumMul(subtotal, NumDiv100(inv.discountRate))
        taxableAmount == NumSub(subtotal, discountAmount)
        cgstAmount == NumMul(taxableAmount, NumDiv100(inv.cgstRate))
        sgstAmount == NumMul(taxableAmount, NumDiv100(inv.sgstRate))
        igstAmount == NumMul(taxableAmount, NumDiv100(inv.igstRate))
        genericTaxAmount == NumMul(taxableAmount, NumDiv100(inv.taxRate))
        taxAmount == NumAdd(NumAdd(cgstAmount, sgstAmount), igstAmount)
        total == NumAdd(taxableAmount, taxAmount)
    IN  [subtotal |-> subtotal, discountAmount |-> discountAmount,
         taxableAmount |-> taxableAmount, taxAmount |-> taxAmount, total |-> total,
         cgstAmount |-> cgstAmount, sgstAmount |-> sgstAmount,
         igstAmount |-> igstAmount, genericTaxAmount |-> genericTaxAmount]

\* A bug the claims must notice: SGST is charged on the amount with CGST added.
calculationsCompounding(inv) ==
    LET subtotal == reduceItems(inv.items, Num(0), 1)
        discountAmount == NumMul(subtotal, NumDiv100(inv.discountRate))
        taxableAmount == NumSub(subtotal, discountAmount)
        cgstAmount == NumMul(taxableAmount, NumDiv100(inv.cgstRate))
        sgstAmount == NumMul(NumAdd(taxableAmount, cgstAmount), NumDiv100(inv.sgstRate))
        igstAmount == NumMul(taxableAmount, NumDiv100(inv.igstRate))
        genericTaxAmount == NumMul(taxableAmount, NumDiv100(inv.taxRate))
        taxAmount == sumTaxes(cgstAmount, sgstAmount, igstAmount, genericTaxAmount)
        total == NumAdd(taxableAmount, taxAmount)
    IN  [subtotal |-> subtotal, discountAmount |-> discountAmount,
         taxableAmount |-> taxableAmount, taxAmount |-> taxAmount, total |-> total,
         cgstAmount |-> cgstAmount, sgstAmount |-> sgstAmount,
         igstAmount |-> igstAmount, genericTaxAmount |-> genericTaxAmount]

\* The memo's body.  taxableAmount is a local of the source; it is kept in the
\* result so that properties can speak of it.
calculations(inv) ==
    LET subtotal == reduceItems(inv.items, Num(0), 1)
        discountAmount == NumMul(subtotal, NumDiv100(inv.discountRate))
        taxableAmount == NumSub(subtotal, discountAmount)
        cgstAmount == NumMul(taxableAmount, NumDiv100(inv.cgstRate))
        sgstAmount == NumMul(taxableAmount, NumDiv100(inv.sgstRate))
        igstAmount == NumMul(taxableAmount, NumDiv100(inv.igstRate))
        genericTaxAmount == NumMul(taxableAmount, NumDiv100(inv.taxRate))
        taxAmount == sumTaxes(cgstAmount, sgstAmount, igstAmount, genericTaxAmount)
        total == NumAdd(taxableAmount, taxAmount)
    IN  [subtotal |-> subtotal, discountAmount |-> discountAmount,
         taxableAmount |-> taxableAmount, taxAmount |-> taxAmount, total |-> total,
         cgstAmount |-> cgstAmount, sgstAmount |-> sgstAmount,
         igstAmount |-> igstAmount, genericTaxAmount |-> genericTaxAmount]

(***************************************************************************)
(* NumberToWords: toWords of the invoice preview                           *)
(***************************************************************************)
ones == <<"", "one", "two", "three", "four", "five", "six", "seven", "eight",
          "nine", "ten", "eleven", "twelve", "thirteen", "fourteen", "fifteen",
          "sixteen", "seventeen", "eighteen", "nineteen">>
tens == <<"", "", "twenty", "thirty", "forty", "fifty", "sixty", "seventy",
          "eighty", "ninety">>

\* ones[i] and tens[i] of the source (0-based); an index past the end of a
\* JavaScript array reads undefined, which a string concatenation spells out.
onesAt(i) == IF i + 1 \in DOMAIN ones THEN ones[i + 1] ELSE "undefined"
tensAt(i) == IF i + 1 \in DOMAIN tens THEN tens[i + 1] ELSE "undefined"

\* s.charAt(0).toUpperCase() + s.slice(1), on the first word of a string
upperWords == <<"", "One", "Two", "Three", "Four", "Five", "Six", "Seven", "Eight",
                "Nine", "Ten", "Eleven", "Twelve", "Thirteen", "Fourteen", "Fifteen",
                "Sixteen", "Seventeen", "Eighteen", "Nineteen">>
upperTens == <<"", "", "Twenty", "Thirty", "Forty", "Fifty", "Sixty", "Seventy",
               "Eighty", "Ninety">>
capitalizeWord(w) ==
    IF \E i \in DOMAIN ones : ones[i] = w
    THEN upperWords[CHOOSE i \in DOMAIN ones : ones[i] = w]
    ELSE IF \E i \in DOMAIN tens : tens[i] = w
    THEN upperTens[CHOOSE i \in DOMAIN tens : tens[i] = w]
    ELSE IF w = "undefined" THEN "Undefined"
    ELSE w
capitalize(ws) == IF ws = <<>> THEN <<>> ELSE <<capitalizeWord(Head(ws))>> \o Tail(ws)

convertLessThanOneThousand(n) ==
    LET hundreds == IF n >= 100
                    THEN <<onesAt(n \div 100), "hundred">>
                         \o (IF n % 100 > 0 THEN <<"and">> ELSE <<>>)
                    ELSE <<>>
        r == IF n >= 100 THEN n % 100 ELSE n
        rest == IF r > 0
                THEN (IF r < 20 THEN <<onesAt(r)>>
                      ELSE <<tensAt(r \div 10)>>
                           \o (IF r % 10 > 0 THEN <<onesAt(r % 10)>> ELSE <<>>))
                ELSE <<>>
    IN  hundreds \o rest

\* wordsArray.join(' ') for numberPart = crore * 10000000 + tempNum, where
\* crore = Math.floor(numberPart / 10000000) and tempNum is the remainder.
groupWords(crore, tempNum) ==
    LET lakh == tempNum \div 100000
        t2 == IF lakh > 0 THEN tempNum % 100000 ELSE tempNum
        thousand == t2 \div 1000
        t3 == IF thousand > 0 THEN t2 % 1000 ELSE t2
    IN  (IF crore > 0 THEN convertLessThanOneThousand(crore) \o <<"crore">> ELSE <<>>)
        \o (IF lakh > 0 THEN convertLessThanOneThousand(lakh) \o <<"lakh">> ELSE <<>>)
        \o (IF thousand > 0 THEN convertLessThanOneThousand(thousand) \o <<"thousand">> ELSE <<>>)
        \o (IF t3 > 0 THEN convertLessThanOneThousand(t3) ELSE <<>>)

\* A bug the claims must notice: the paise are appended without " and ".
wordsOfAmountNoAnd(numberPart, decimalPart) ==
    IF numberPart = 0 /\ decimalPart = 0 THEN <<"Zero", "Rupees", "Only">>
    ELSE LET rupeesInWords == IF numberPart > 0
                              THEN groupWords(numberPart \div 10000000, numberPart % 10000000)
                              ELSE <<>>
             result1 == IF rupeesInWords # <<>>
                        THEN capitalize(rupeesInWords) \o <<"Rupees">>
                        ELSE <<>>
             result2 == IF decimalPart > 0
                        THEN result1
                             \o capitalize(convertLessThanOneThousand(decimalPart))
                             \o <<"Paise">>
                        ELSE result1
         IN  result2 \o <<"Only">>

\* toWords for a finite num >= 0 (the rest of the function after its two guards)
wordsOfAmount(numberPart, decimalPart) ==
    IF numberPart = 0 /\ decimalPart = 0 THEN <<"Zero", "Rupees", "Only">>
    ELSE LET rupeesInWords == IF numberPart > 0
                              THEN groupWords(numberPart \div 10000000, numberPart % 10000000)
                              ELSE <<>>
             result1 == IF rupeesInWords # <<>>
                        THEN capitalize(rupeesInWords) \o <<"Rupees">>
                        ELSE <<>>
             result2 == IF decimalPart > 0
                        THEN (IF result1 # <<>> THEN result1 \o <<"and">> ELSE result1)
                             \o capitalize(convertLessThanOneThousand(decimalPart))
                             \o <<"Paise">>
                        ELSE result1
         IN  result2 \o <<"Only">>

\* A bug the claims must notice: the guard tests for NaN only.
RECURSIVE toWordsNaNOnly(_)
toWordsNaNOnly(num) ==
    IF num.kind = "nan" THEN <<"Invalid", "Number">>
    ELSE IF NumNegative(num) THEN <<"Minus">> \o toWordsNaNOnly(NumAbs(num))
    ELSE wordsOfAmount(NumFloor(num), NumRoundFrac100(num))

RECURSIVE toWords(_)
toWords(num) ==
    IF ~isFinite(num) THEN <<"Invalid", "Number">>
    ELSE IF NumNegative(num) THEN <<"Minus">> \o toWords(NumAbs(num))
    ELSE wordsOfAmount(NumFloor(num), NumRoundFrac100(num))

(***************************************************************************)
(* getContrastColor of the preview.  A colour string is modelled as the    *)
(* sequence of its characters.                                             *)
(***************************************************************************)
\* a >= b
NumGe(a, b) == a.kind # "nan" /\ b.kind # "nan" /\ ~NumNegative(NumSub(a, b))

\* a / 1000
NumDiv1000(a) == IF a.kind = "fin" THEN Dec(a.m, a.e + 3) ELSE a

LowerHex == <<"0", "1", "2", "3", "4", "5", "6", "7", "8", "9",
              "a", "b", "c", "d", "e", "f">>
UpperHex == <<"0", "1", "2", "3", "4", "5", "6", "7", "8", "9",
              "A", "B", "C", "D", "E", "F">>

\* the value of a character as a digit of radix 16, -1 when it is none
hexDigitValue(c) ==
    IF \E i \in 1 .. 16 : LowerHex[i] = c
    THEN (CHOOSE i \in 1 .. 16 : LowerHex[i] = c) - 1
    ELSE IF \E i \in 1 .. 16 : UpperHex[i] = c
    THEN (CHOOSE i \in 1 .. 16 : UpperHex[i] = c) - 1
    ELSE -1

\* white space parseInt skips at the start of its argument
WhiteSpace == {" ", "\t", "\n"}

RECURSIVE skipWhiteSpace(_)
skipWhiteSpace(s) ==
    IF s # <<>> /\ Head(s) \in WhiteSpace THEN skipWhiteSpace(Tail(s)) ELSE s

\* the digits parseInt reads: it stops at the first character that is no
\* digit; seen tells whether a digit was read, acc is their value
RECURSIVE readHexDigits(_, _, _)
readHexDigits(s, acc, seen) ==
    IF s # <<>> /\ hexDigitValue(Head(s)) >= 0
    THEN readHexDigits(Tail(s), 16 * acc + hexDigitValue(Head(s)), TRUE)
    ELSE [seen |-> seen, value |-> acc]

\* parseInt(s, 16): leading white space, a sign and a 0x prefix are skipped,
\* the longest run of hex digits is read, NaN when there is none
parseInt16(s) ==
    LET t == skipWhiteSpace(s)
        negative == t # <<>> /\ Head(t) = "-"
        u == IF t # <<>> /\ Head(t) \in {"+", "-"} THEN Tail(t) ELSE t
        v == IF Len(u) >= 2 /\ u[1] = "0" /\ u[2] \in {"x", "X"}
             THEN SubSeq(u, 3, Len(u)) ELSE u
        d == readHexDigits(v, 0, FALSE)
    IN  IF ~d.seen THEN NaN
        ELSE IF negative THEN Num(0 - d.value) ELSE Num(d.value)

\* hexColor.replace('#', ''): the first '#' is removed, wherever it stands
RECURSIVE replaceHash(_)
replaceHash(s) ==
    IF s = <<>> THEN <<>>
    ELSE IF Head(s) = "#" THEN Tail(s)
    ELSE <<Head(s)>> \o replaceHash(Tail(s))

\* hex.substring(from, to)
substring(s, from, to) == SubSeq(s, from + 1, to)

getContrastColor(color) ==
    IF color = <<>> THEN "#ffffff"
    ELSE LET hex == replaceHash(color)
         IN  IF Len(hex) # 6 THEN "#ffffff"
             ELSE LET r == parseInt16(substring(hex, 0, 2))
                      g == parseInt16(substring(hex, 2, 4))
                      b == parseInt16(substring(hex, 4, 6))
                      yiq == NumDiv1000(NumAdd(NumAdd(NumMul(r, Num(299)),
                                                      NumMul(g, Num(587))),
                                               NumMul(b, Num(114))))
                  IN  IF NumGe(yiq, Num(128)) THEN "#000000" ELSE "#ffffff"

(***************************************************************************)
(* The invoice document and its stored draft                               *)
(*                                                                         *)
(* The free-text and enumerated fields of Invoice that no operation reads  *)
(* (invoiceType, date, dueDate, business, client, currency, bankDetails,   *)
(* notes; an item's description and hsn) behave like invoiceNumber and are *)
(* left out.                                                               *)
(***************************************************************************)
DEFAULT_THEME_COLOR == "#10B981"

\* JavaScript null as the value of a string-typed field, and as a JSON number
null == "<null>"
JNull == [kind |-> "null", m |-> 0, e |-> 0]

RateFields == {"cgstRate", "sgstRate", "igstRate", "taxRate", "discountRate"}

getInitialInvoiceState ==
    [logo |-> null,
     invoiceNumber |-> "",
     items |-> << [id |-> 1, quantity |-> Num(0), price |-> Num(0)] >>,
     cgstRate |-> Num(0),
     sgstRate |-> Num(0),
     igstRate |-> Num(0),
     taxRate |-> Num(0),
     discountRate |-> Num(0),
     themeColor |-> DEFAULT_THEME_COLOR]

\* JSON.stringify of a number: a non-finite number is written as null
jsonNumber(a) == IF a.kind = "fin" THEN a ELSE JNull

\* A bug the claims must notice: the draft is written without its items.
JSONstringifyNoItems(inv) ==
    [f \in DOMAIN inv \ {"items"} |->
        IF f \in RateFields THEN jsonNumber(inv[f]) ELSE inv[f]]

\* JSON.stringify(invoice), as the object the text parses back to
JSONstringify(inv) ==
    [f \in DOMAIN inv |->
        IF f \in RateFields THEN jsonNumber(inv[f])
        ELSE IF f = "items"
        THEN [i \in DOMAIN inv[f] |->
                [id |-> inv[f][i].id,
                 quantity |-> jsonNumber(inv[f][i].quantity),
                 price |-> jsonNumber(inv[f][i].price)]]
        ELSE inv[f]]

\* What localStorage holds under 'invoiceDraft'.  kind: "absent" (getItem
\* returns null), "empty" (the empty string), "invalid" (text JSON.parse
\* rejects), "null", "scalar" (a number or a boolean), "string" (a JSON
\* string; obj holds its characters under their indices, as the spread
\* copies them), "object" (obj holds the fields).
Draft(kind, obj) == [kind |-> kind, obj |-> obj]
NoDraft == Draft("absent", <<>>)

\* parsed.themeColor || DEFAULT_THEME_COLOR
themeColorOr(obj) ==
    IF "themeColor" \in DOMAIN obj /\ obj["themeColor"] # "" /\ obj["themeColor"] # null
    THEN obj["themeColor"]
    ELSE DEFAULT_THEME_COLOR

\* { ...defaults, ...parsed, themeColor: parsed.themeColor || DEFAULT_THEME_COLOR }
mergeDraft(defaults, obj) ==
    [f \in DOMAIN defaults \cup DOMAIN obj |->
        IF f = "themeColor" THEN themeColorOr(obj)
        ELSE IF f \in DOMAIN obj THEN obj[f]
        ELSE defaults[f]]

\* The try block of loadInitialState: JSON.parse throws on text that is not
\* JSON; reading parsed.themeColor throws when parsed is null.
tryParseAndMerge(defaults, draft) ==
    IF draft.kind \in {"invalid", "null"}
    THEN [threw |-> TRUE, value |-> defaults]
    ELSE [threw |-> FALSE, value |-> mergeDraft(defaults, draft.obj)]

\* A bug the claims must notice: the parse error is not caught.
loadInitialStateNoCatch(draft) ==
    LET defaults == getInitialInvoiceState
    IN  IF draft.kind \in {"absent", "empty"}
        THEN [threw |-> FALSE, value |-> defaults]
        ELSE tryParseAndMerge(defaults, draft)

\* A bug the claims must notice: the draft replaces the defaults instead of
\* being merged over them.
loadInitialStateNoMerge(draft) ==
    LET defaults == getInitialInvoiceState
    IN  IF draft.kind \in {"absent", "empty"}
        THEN [threw |-> FALSE, value |-> defaults]
        ELSE IF tryParseAndMerge(defaults, draft).threw
        THEN [threw |-> FALSE, value |-> defaults]
        ELSE [threw |-> FALSE, value |-> draft.obj]

\* threw: whether an error escapes to the caller; value: the Invoice returned
loadInitialState(draft) ==
    LET defaults == getInitialInvoiceState
    IN  IF draft.kind \in {"absent", "empty"}
        THEN [threw |-> FALSE, value |-> defaults]
        ELSE IF tryParseAndMerge(defaults, draft).threw
        THEN [threw |-> FALSE, value |-> defaults]
        ELSE [threw |-> FALSE, value |-> tryParseAndMerge(defaults, draft).value]

(***************************************************************************)
(* Bounds of the model                                                     *)
(***************************************************************************)
\* timers armed by window.setTimeout in one behaviour (ids 1..MaxTimerId)
MaxTimerId == 5
\* the page is opened and form fields are edited while nextTimerId is at most this
MaxEditTimerId == 3
\* notice timers pending at once
MaxNoticeTimers == 2
\* items of the invoice
MaxItems == 3
\* the clock read by new Date().getTime() runs from FirstClock to MaxClock
FirstClock == 2
MaxClock == 3

\* values typed or pasted into the form of the running application
AppNumbers == {Num(2), Infinity}
AppInvoiceNumbers == {"", "   ", "INV-7"}

\* drafts found in localStorage when the page is first opened
InitialDrafts ==
    { NoDraft,
      Draft("empty", <<>>),
      Draft("invalid", <<>>),
      Draft("null", <<>>),
      Draft("scalar", <<>>),
      Draft("string", [k \in {"0", "1"} |-> IF k = "0" THEN "a" ELSE "b"]),
      \* a draft of an older shape: no themeColor, no taxRate
      Draft("object", [f \in {"logo", "invoiceNumber"} |->
                          IF f = "logo" THEN "data:logo" ELSE "INV-7"]),
      \* a draft with an empty themeColor
      Draft("object", [getInitialInvoiceState EXCEPT !.themeColor = ""]),
      \* a draft with an extracted themeColor
      Draft("object", [getInitialInvoiceState EXCEPT !.logo = "data:logo",
                                                     !.themeColor = "#c0ffee"]) }

(***************************************************************************)
(* State                                                                   *)
(***************************************************************************)
VARIABLES
    mounted,             \* App is mounted in the page
    uncaughtError,       \* an exception escaped a handler or the initial render
    invoice,             \* useState<Invoice>
    totals,              \* the calculations memo of the last render
    num, words,          \* argument and result of the preview's toWords call
    storage,             \* localStorage['invoiceDraft']
    timers,              \* pending window.setTimeout autosave callbacks
    autoSaveTimeoutRef,  \* autoSaveTimeoutRef.current; 0 is null
    nextTimerId,         \* the id the next window.setTimeout returns
    feedback,            \* useState feedback
    noticeTimers,        \* pending setTimeout(() => setFeedback(null), 3000)
    clock,               \* the last value read from new Date().getTime()
    hexColor,            \* argument of the preview's getContrastColor call
    contrastColor,       \* its result
    isLogoUploading,     \* useState isLogoUploading
    readers,             \* FileReaders with a readAsDataURL in progress
    images,              \* the src of every Image whose load is in progress
    isDownloading,       \* useState isDownloading
    exports,             \* generatePdfBlob calls awaiting html2canvas
    downloads,           \* files handed to the browser by a.click()
    bigNumberPart,       \* numberPart of a toWords call: its crore group and the rest
    bigRupeesInWords     \* rupeesInWords of that call

contrastVars == <<hexColor, contrastColor>>
uploadVars == <<isLogoUploading, readers, images>>
exportVars == <<isDownloading, exports, downloads>>
groupVars == <<bigNumberPart, bigRupeesInWords>>
ioVars == <<contrastVars, uploadVars, exportVars, groupVars>>

vars == <<mounted, uncaughtError, invoice, totals, num, words, storage, timers,
          autoSaveTimeoutRef, nextTimerId, feedback, noticeTimers, clock, ioVars>>

appVars == <<mounted, uncaughtError, storage, timers, autoSaveTimeoutRef,
             nextTimerId, feedback, noticeTimers, clock, ioVars>>

\* no upload and no export is under way, nothing has been downloaded
IdleIo ==
    /\ hexColor = <<>>
    /\ contrastColor = "#ffffff"
    /\ isLogoUploading = FALSE
    /\ readers = 0
    /\ images = <<>>
    /\ isDownloading = FALSE
    /\ exports = 0
    /\ downloads = 0
    /\ bigNumberPart = [crore |-> 0, tempNum |-> 0]
    /\ bigRupeesInWords = <<>>

NoFeedback == [message |-> "", type |-> "none"]
SaveFailedNotice == [message |-> "Couldn't save draft. Storage may be full.", type |-> "error"]

\* the value of invoice while no App is mounted
NoInvoice == [getInitialInvoiceState EXCEPT !.invoiceNumber = "<unmounted>"]

(***************************************************************************)
(* Handlers                                                                *)
(***************************************************************************)
\* setInvoice(prev => ({ ...prev, [key]: value }))
handleInvoiceChange(prev, key, value) ==
    [f \in DOMAIN prev \cup {key} |-> IF f = key THEN value ELSE prev[f]]

\* const newItems = [...invoice.items]; newItems[index] = updatedItem
handleItemChange(inv, index, updatedItem) ==
    handleInvoiceChange(inv, "items", [inv.items EXCEPT ![index] = updatedItem])

\* [...invoice.items, newItem] with id: new Date().getTime()
handleAddItem(inv, time) ==
    handleInvoiceChange(inv, "items",
        Append(inv.items, [id |-> time, quantity |-> Num(0), price |-> Num(0)]))

\* A bug the claims must notice: when no item has the id, the last item is
\* removed.
handleRemoveItemOrLast(inv, id) ==
    IF \E i \in DOMAIN inv.items : inv.items[i].id = id
    THEN handleInvoiceChange(inv, "items", SelectSeq(inv.items, LAMBDA item : item.id # id))
    ELSE handleInvoiceChange(inv, "items", SubSeq(inv.items, 1, Len(inv.items) - 1))

\* invoice.items.filter(item => item.id !== id)
handleRemoveItem(inv, id) ==
    handleInvoiceChange(inv, "items", SelectSeq(inv.items, LAMBDA item : item.id # id))

\* An items handler called while the state is prev and the last render,
\* whose invoice.items the handler closes over, showed rendered: the new
\* items are computed from rendered.items and put into prev by the updater
\* of handleInvoiceChange.
dispatchItemChange(prev, rendered, index, updatedItem) ==
    handleInvoiceChange(prev, "items", handleItemChange(rendered, index, updatedItem).items)

dispatchAddItem(prev, rendered, time) ==
    handleInvoiceChange(prev, "items", handleAddItem(rendered, time).items)

dispatchRemoveItem(prev, rendered, id) ==
    handleInvoiceChange(prev, "items", handleRemoveItem(rendered, id).items)

\* A bug the claims must notice: the theme colour of the removed logo stays.
handleRemoveLogoKeepTheme(inv) ==
    handleInvoiceChange(inv, "logo", null)

\* handleInvoiceChange('logo', null); handleInvoiceChange('themeColor',
\* DEFAULT_THEME_COLOR): two functional updates, applied in this order
handleRemoveLogo(inv) ==
    handleInvoiceChange(handleInvoiceChange(inv, "logo", null),
                        "themeColor", DEFAULT_THEME_COLOR)

\* clearTimeout(id)
clearTimeout(pending, id) == {t \in pending : t.id # id}

\* A bug the claims must notice: the effect arms a timer without cancelling
\* the one before.
autosaveEffectNoClear(pending, ref, id, inv) ==
    pending \cup {[id |-> id, invoice |-> inv]}

\* A bug the claims must notice: the effect cancels the pending timer and
\* arms a new one only when none was armed before.
autosaveEffectNoRearm(pending, ref, id, inv) ==
    IF ref # 0 THEN clearTimeout(pending, ref)
    ELSE pending \cup {[id |-> id, invoice |-> inv]}

\* The autosave effect, run after a render with a new invoice: the cleanup of
\* the effect before and the effect itself clear the timer the ref names,
\* then window.setTimeout arms a callback that closes over this render's
\* invoice.
autosaveEffect(pending, ref, id, inv) ==
    (IF ref # 0 THEN clearTimeout(pending, ref) ELSE pending)
        \cup {[id |-> id, invoice |-> inv]}

\* A bug the claims must notice: a failed write resets the document.
autosaveCatchReset(inv, fb) ==
    [invoice |-> getInitialInvoiceState, feedback |-> SaveFailedNotice,
     armed |-> 1, uncaught |-> FALSE]

\* The catch block of the autosave callback: console.error and showFeedback.
\* invoice and feedback are the state it leaves, armed the notice timers it
\* arms, uncaught whether the error escapes the callback.
autosaveCatch(inv, fb) ==
    [invoice |-> inv, feedback |-> SaveFailedNotice, armed |-> 1, uncaught |-> FALSE]

(***************************************************************************)
(* handleLogoUpload: the callbacks of its FileReader and of its Image      *)
(***************************************************************************)
UploadFailedNotice ==
    [message |-> "Failed to upload logo. Please try another file.", type |-> "error"]
ImageFailedNotice ==
    [message |-> "Could not process image for color theming.", type |-> "error"]

\* reader.result of a read that succeeded: the data URL of the file
UploadedLogos == {"data:upload"}
\* the colour ColorThief extracts, as '#' and six hex digits
DominantColors == {"#336699"}

\* reader.onloadend: the logo becomes reader.result (null after a failed
\* read), and an Image is given that value as its src
readerOnloadend(inv, result) ==
    [invoice |-> handleInvoiceChange(inv, "logo", result), src |-> result]

\* A bug the claims must notice: the read error leaves the busy flag set.
readerOnerrorKeepsBusy(busy) ==
    [isLogoUploading |-> busy, feedback |-> UploadFailedNotice, armed |-> 1]

\* reader.onerror: setIsLogoUploading(false) and showFeedback
readerOnerror(busy) ==
    [isLogoUploading |-> FALSE, feedback |-> UploadFailedNotice, armed |-> 1]

\* image.onload: try { themeColor := the dominant colour } catch
\* { themeColor := DEFAULT_THEME_COLOR } finally { setIsLogoUploading(false) };
\* threw tells whether new ColorThief() or getColor threw
imageOnload(inv, dominantColor, threw) ==
    [invoice |-> handleInvoiceChange(inv, "themeColor",
                     IF threw THEN DEFAULT_THEME_COLOR ELSE dominantColor),
     isLogoUploading |-> FALSE]

\* image.onerror: setIsLogoUploading(false) and showFeedback; the invoice is
\* not touched
imageOnerror(busy) ==
    [isLogoUploading |-> FALSE, feedback |-> ImageFailedNotice, armed |-> 1]

\* the sequence without its i-th element
RemoveAt(q, i) == SubSeq(q, 1, i - 1) \o SubSeq(q, i + 1, Len(q))

\* renders with a new invoice that the uploads under way may still cause:
\* two for a read in progress (logo, themeColor), one for an Image that is
\* loading a data URL
PendingRenders ==
    2 * readers + Cardinality({i \in DOMAIN images : images[i] # null})

(***************************************************************************)
(* Actions.  A handler runs to completion, and React renders the batched   *)
(* state updates and runs the effects of that render before the next       *)
(* handler or timer callback runs.                                         *)
(***************************************************************************)
\* the dependencies of the calculations memo
memoDeps(inv) ==
    <<inv.items, inv.cgstRate, inv.sgstRate, inv.igstRate, inv.taxRate,
      inv.discountRate>>

\* The render of App with invoice inv: the calculations memo, recomputed when
\* one of its dependencies changed, and the preview
Render(inv) ==
    /\ totals' = IF memoDeps(inv) = memoDeps(invoice) THEN totals
                 ELSE calculations(inv)
    /\ num' = totals'.total
    /\ words' = toWords(totals'.total)

\* A render after setInvoice: the invoice is a new object, so the autosave
\* effect runs.
Commit(inv) ==
    /\ nextTimerId <= MaxTimerId
    /\ invoice' = inv
    /\ Render(inv)
    /\ timers' = autosaveEffect(timers, autoSaveTimeoutRef, nextTimerId, inv)
    /\ autoSaveTimeoutRef' = nextTimerId
    /\ nextTimerId' = nextTimerId + 1

Init ==
    /\ mounted = FALSE
    /\ uncaughtError = FALSE
    /\ invoice = NoInvoice
    /\ totals = calculations(NoInvoice)
    /\ num = Num(0)
    /\ words = <<>>
    /\ storage \in InitialDrafts
    /\ timers = {}
    /\ autoSaveTimeoutRef = 0
    /\ nextTimerId = 1
    /\ feedback = NoFeedback
    /\ noticeTimers = 0
    /\ clock = FirstClock
    /\ IdleIo

\* The page is opened: useState(loadInitialState), first render, first effect
Mount ==
    /\ ~mounted
    /\ ~uncaughtError
    /\ nextTimerId <= MaxEditTimerId
    /\ IF loadInitialState(storage).threw
       THEN /\ uncaughtError' = TRUE
            /\ UNCHANGED <<mounted, invoice, totals, num, words, timers,
                           autoSaveTimeoutRef, nextTimerId>>
       ELSE /\ mounted' = TRUE
            /\ Commit(loadInitialState(storage).value)
            /\ UNCHANGED uncaughtError
    /\ UNCHANGED <<storage, feedback, noticeTimers, clock>>
    /\ UNCHANGED ioVars

\* The page is closed or reloaded: the component state and the pending
\* timers are gone, localStorage stays.
Unload ==
    /\ mounted
    /\ mounted' = FALSE
    /\ invoice' = NoInvoice
    /\ totals' = calculations(NoInvoice)
    /\ num' = Num(0)
    /\ words' = <<>>
    /\ timers' = {}
    /\ autoSaveTimeoutRef' = 0
    /\ feedback' = NoFeedback
    /\ noticeTimers' = 0
    /\ isLogoUploading' = FALSE
    /\ readers' = 0
    /\ images' = <<>>
    /\ isDownloading' = FALSE
    /\ exports' = 0
    /\ UNCHANGED <<uncaughtError, storage, nextTimerId, clock, contrastVars, groupVars, downloads>>

\* A form field is edited: onInvoiceChange(key, value)
ChangeInvoiceNumber ==
    /\ mounted
    /\ nextTimerId <= MaxEditTimerId
    /\ \E v \in AppInvoiceNumbers : Commit(handleInvoiceChange(invoice, "invoiceNumber", v))
    /\ UNCHANGED <<mounted, uncaughtError, storage, feedback, noticeTimers, clock>>
    /\ UNCHANGED ioVars

ChangeRate ==
    /\ mounted
    /\ nextTimerId <= MaxEditTimerId
    /\ \E k \in RateFields, v \in AppNumbers : Commit(handleInvoiceChange(invoice, k, v))
    /\ UNCHANGED <<mounted, uncaughtError, storage, feedback, noticeTimers, clock>>
    /\ UNCHANGED ioVars

\* onItemChange(index, { ...item, quantity: v }) or { ...item, price: v }
ItemChange ==
    /\ mounted
    /\ nextTimerId <= MaxEditTimerId
    /\ \E index \in DOMAIN invoice.items, v \in AppNumbers :
          \/ Commit(handleItemChange(invoice, index,
                        [invoice.items[index] EXCEPT !.quantity = v]))
          \/ Commit(handleItemChange(invoice, index,
                        [invoice.items[index] EXCEPT !.price = v]))
    /\ UNCHANGED <<mounted, uncaughtError, storage, feedback, noticeTimers, clock>>
    /\ UNCHANGED ioVars

AddItem ==
    /\ mounted
    /\ nextTimerId <= MaxEditTimerId
    /\ Len(invoice.items) < MaxItems
    /\ \E time \in clock .. MaxClock :
          /\ clock' = time
          /\ Commit(handleAddItem(invoice, time))
    /\ UNCHANGED <<mounted, uncaughtError, storage, feedback, noticeTimers>>
    /\ UNCHANGED ioVars

\* the remove button of a displayed item
RemoveItem ==
    /\ mounted
    /\ nextTimerId <= MaxEditTimerId
    /\ \E index \in DOMAIN invoice.items :
          Commit(handleRemoveItem(invoice, invoice.items[index].id))
    /\ UNCHANGED <<mounted, uncaughtError, storage, feedback, noticeTimers, clock>>
    /\ UNCHANGED ioVars

\* the remove button of the logo, rendered while invoice.logo is truthy and
\* no upload is flagged
RemoveLogo ==
    /\ mounted
    /\ invoice.logo # null /\ invoice.logo # ""
    /\ ~isLogoUploading
    /\ nextTimerId + PendingRenders <= MaxTimerId
    /\ Commit(handleRemoveLogo(invoice))
    /\ UNCHANGED <<mounted, uncaughtError, storage, feedback, noticeTimers, clock>>
    /\ UNCHANGED ioVars

\* An autosave timer fires and localStorage.setItem stores the draft
AutosaveWrite ==
    /\ \E t \in timers :
          /\ timers' = timers \ {t}
          /\ storage' = Draft("object", JSONstringify(t.invoice))
    /\ UNCHANGED <<mounted, uncaughtError, invoice, totals, num, words,
                   autoSaveTimeoutRef, nextTimerId, feedback, noticeTimers, clock>>
    /\ UNCHANGED ioVars

\* An autosave timer fires and localStorage.setItem throws (quota exceeded)
AutosaveWriteFails ==
    /\ noticeTimers < MaxNoticeTimers
    /\ \E t \in timers :
          /\ timers' = timers \ {t}
          /\ invoice' = autosaveCatch(invoice, feedback).invoice
          /\ feedback' = autosaveCatch(invoice, feedback).feedback
          /\ noticeTimers' = noticeTimers + autosaveCatch(invoice, feedback).armed
          /\ uncaughtError' = autosaveCatch(invoice, feedback).uncaught
    /\ Render(invoice')
    /\ UNCHANGED <<mounted, storage, autoSaveTimeoutRef, nextTimerId, clock>>
    /\ UNCHANGED ioVars

\* setTimeout(() => setFeedback(null), 3000) fires
NoticeTimeout ==
    /\ noticeTimers > 0
    /\ noticeTimers' = noticeTimers - 1
    /\ feedback' = NoFeedback
    /\ UNCHANGED <<mounted, uncaughtError, invoice, totals, num, words, storage,
                   timers, autoSaveTimeoutRef, nextTimerId, clock>>
    /\ UNCHANGED ioVars

Next ==
    \/ Mount
    \/ Unload
    \/ ChangeInvoiceNumber
    \/ ChangeRate
    \/ ItemChange
    \/ AddItem
    \/ RemoveItem
    \/ RemoveLogo
    \/ AutosaveWrite
    \/ AutosaveWriteFails
    \/ NoticeTimeout

Spec == Init /\ [][Next]_vars

(***************************************************************************)
(* The logo upload.  The file input is disabled while isLogoUploading; the *)
(* FileReader and the Image call back in later tasks.                      *)
(***************************************************************************)
\* a file is chosen: setIsLogoUploading(true), reader.readAsDataURL(file)
LogoUpload ==
    /\ mounted
    /\ ~isLogoUploading
    /\ nextTimerId + PendingRenders + 1 <= MaxTimerId
    /\ isLogoUploading' = TRUE
    /\ readers' = readers + 1
    /\ UNCHANGED <<mounted, uncaughtError, invoice, totals, num, words, storage,
                   timers, autoSaveTimeoutRef, nextTimerId, feedback,
                   noticeTimers, clock, images, contrastVars, groupVars, exportVars>>

\* the read succeeded: load, then loadend
ReaderLoad ==
    /\ readers > 0
    /\ \E url \in UploadedLogos :
          /\ Commit(readerOnloadend(invoice, url).invoice)
          /\ images' = Append(images, readerOnloadend(invoice, url).src)
    /\ readers' = readers - 1
    /\ UNCHANGED <<mounted, uncaughtError, storage, feedback, noticeTimers,
                   clock, isLogoUploading, contrastVars, groupVars, exportVars>>

\* the read failed: error, then loadend in the same task, reader.result null
ReaderError ==
    /\ readers > 0
    /\ noticeTimers < MaxNoticeTimers
    /\ isLogoUploading' = readerOnerror(isLogoUploading).isLogoUploading
    /\ feedback' = readerOnerror(isLogoUploading).feedback
    /\ noticeTimers' = noticeTimers + readerOnerror(isLogoUploading).armed
    /\ Commit(readerOnloadend(invoice, null).invoice)
    /\ images' = Append(images, readerOnloadend(invoice, null).src)
    /\ readers' = readers - 1
    /\ UNCHANGED <<mounted, uncaughtError, storage, clock, contrastVars, groupVars, exportVars>>

\* an Image decoded its data URL and ColorThief returned a colour
ImageLoad ==
    /\ \E i \in DOMAIN images : \E c \in DominantColors :
          /\ images[i] # null
          /\ Commit(imageOnload(invoice, c, FALSE).invoice)
          /\ isLogoUploading' = imageOnload(invoice, c, FALSE).isLogoUploading
          /\ images' = RemoveAt(images, i)
    /\ UNCHANGED <<mounted, uncaughtError, storage, feedback, noticeTimers,
                   clock, readers, contrastVars, groupVars, exportVars>>

\* an Image decoded its data URL and ColorThief threw
ImageLoadColorThiefThrows ==
    /\ \E i \in DOMAIN images :
          /\ images[i] # null
          /\ Commit(imageOnload(invoice, DEFAULT_THEME_COLOR, TRUE).invoice)
          /\ isLogoUploading' =
                imageOnload(invoice, DEFAULT_THEME_COLOR, TRUE).isLogoUploading
          /\ images' = RemoveAt(images, i)
    /\ UNCHANGED <<mounted, uncaughtError, storage, feedback, noticeTimers,
                   clock, readers, contrastVars, groupVars, exportVars>>

\* an Image could not load its src: a data URL that is no image, or the src
\* null of a failed read
ImageError ==
    /\ noticeTimers < MaxNoticeTimers
    /\ \E i \in DOMAIN images : images' = RemoveAt(images, i)
    /\ isLogoUploading' = imageOnerror(isLogoUploading).isLogoUploading
    /\ feedback' = imageOnerror(isLogoUploading).feedback
    /\ noticeTimers' = noticeTimers + imageOnerror(isLogoUploading).armed
    /\ UNCHANGED <<mounted, uncaughtError, invoice, totals, num, words, storage,
                   timers, autoSaveTimeoutRef, nextTimerId, clock, readers,
                   contrastVars, groupVars, exportVars>>

UploadNext ==
    \/ Mount
    \/ LogoUpload
    \/ ReaderLoad
    \/ ReaderError
    \/ ImageLoad
    \/ ImageLoadColorThiefThrows
    \/ ImageError
    \/ RemoveLogo
    \/ AutosaveWrite
    \/ NoticeTimeout

SpecUpload == Init /\ [][UploadNext]_vars

\* The browser delivers the events of a read and of an image load, and fires
\* the timers that dismiss a notice.
FairSpecUpload ==
    /\ Init
    /\ [][UploadNext]_vars
    /\ WF_vars(ReaderLoad \/ ReaderError)
    /\ WF_vars(ImageLoad \/ ImageLoadColorThiefThrows \/ ImageError)
    /\ WF_vars(NoticeTimeout)

(***************************************************************************)
(* The PDF export: handleDownloadPdf and generatePdfBlob.  The button is   *)
(* disabled while isDownloading; html2canvas settles in a later task.      *)
(***************************************************************************)
\* files downloaded in one behaviour
MaxDownloads == 2

EmptyNumberNotice ==
    [message |-> "Invoice number cannot be empty.", type |-> "error"]
PdfFailedNotice ==
    [message |-> "Failed to generate PDF. Please try again.", type |-> "error"]

\* String.prototype.trim, on the invoice numbers of the model
trim(s) ==
    CASE s = "   " -> ""
      [] s = " INV-7 " -> "INV-7"
      [] OTHER -> s

\* A bug the claims must notice: the invoice number is not looked at.
handleDownloadPdfNoCheck(inv, busy, fb) ==
    [isDownloading |-> TRUE, feedback |-> fb, armed |-> 0, started |-> 1]

\* A bug the claims must notice: the busy flag is not set.
handleDownloadPdfNoBusy(inv, busy, fb) ==
    IF trim(inv.invoiceNumber) = ""
    THEN [isDownloading |-> busy, feedback |-> EmptyNumberNotice, armed |-> 1,
          started |-> 0]
    ELSE [isDownloading |-> busy, feedback |-> fb, armed |-> 0, started |-> 1]

\* handleDownloadPdf up to its await: the state it leaves, the notice timers
\* it arms, and the generatePdfBlob calls it starts
handleDownloadPdf(inv, busy, fb) ==
    IF trim(inv.invoiceNumber) = ""
    THEN [isDownloading |-> busy, feedback |-> EmptyNumberNotice, armed |-> 1,
          started |-> 0]
    ELSE [isDownloading |-> TRUE, feedback |-> fb, armed |-> 0, started |-> 1]

\* generatePdfBlob: the blob, or the catch block's notice and null; threw
\* tells whether a step of its try block threw
generatePdfBlob(threw, fb) ==
    IF threw
    THEN [blob |-> FALSE, feedback |-> PdfFailedNotice, armed |-> 1]
    ELSE [blob |-> TRUE, feedback |-> fb, armed |-> 0]

\* A bug the claims must notice: the link is clicked without a blob.
handleDownloadPdfResumeNoBlobTest(blob, n) ==
    [downloads |-> n + 1, isDownloading |-> FALSE]

\* handleDownloadPdf after its await: if (blob) { ... a.click() ... };
\* setIsDownloading(false)
handleDownloadPdfResume(blob, n) ==
    [downloads |-> IF blob THEN n + 1 ELSE n, isDownloading |-> FALSE]

\* the Download PDF button is clicked
DownloadPdf ==
    /\ mounted
    /\ ~isDownloading
    /\ noticeTimers + handleDownloadPdf(invoice, isDownloading, feedback).armed
          <= MaxNoticeTimers
    /\ downloads + exports + handleDownloadPdf(invoice, isDownloading, feedback).started
          <= MaxDownloads
    /\ isDownloading' = handleDownloadPdf(invoice, isDownloading, feedback).isDownloading
    /\ feedback' = handleDownloadPdf(invoice, isDownloading, feedback).feedback
    /\ noticeTimers' =
          noticeTimers + handleDownloadPdf(invoice, isDownloading, feedback).armed
    /\ exports' = exports + handleDownloadPdf(invoice, isDownloading, feedback).started
    /\ UNCHANGED <<mounted, uncaughtError, invoice, totals, num, words, storage,
                   timers, autoSaveTimeoutRef, nextTimerId, clock, downloads,
                   contrastVars, groupVars, uploadVars>>

\* the button is clicked and generatePdfBlob throws before its await (the
\* jspdf script is not loaded): the catch block and the rest of
\* handleDownloadPdf run before the next task
DownloadPdfThrowsAtOnce ==
    /\ mounted
    /\ ~isDownloading
    /\ handleDownloadPdf(invoice, isDownloading, feedback).started = 1
    /\ noticeTimers < MaxNoticeTimers
    /\ feedback' = generatePdfBlob(TRUE, feedback).feedback
    /\ noticeTimers' = noticeTimers + generatePdfBlob(TRUE, feedback).armed
    /\ downloads' =
          handleDownloadPdfResume(generatePdfBlob(TRUE, feedback).blob, downloads).downloads
    /\ isDownloading' =
          handleDownloadPdfResume(generatePdfBlob(TRUE, feedback).blob, downloads).isDownloading
    /\ UNCHANGED <<mounted, uncaughtError, invoice, totals, num, words, storage,
                   timers, autoSaveTimeoutRef, nextTimerId, clock, exports,
                   contrastVars, groupVars, uploadVars>>

\* html2canvas resolved and the PDF was assembled: the file is downloaded
ExportDone ==
    /\ exports > 0
    /\ exports' = exports - 1
    /\ downloads' =
          handleDownloadPdfResume(generatePdfBlob(FALSE, feedback).blob, downloads).downloads
    /\ isDownloading' =
          handleDownloadPdfResume(generatePdfBlob(FALSE, feedback).blob, downloads).isDownloading
    /\ UNCHANGED <<mounted, uncaughtError, invoice, totals, num, words, storage,
                   timers, autoSaveTimeoutRef, nextTimerId, feedback,
                   noticeTimers, clock, contrastVars, groupVars, uploadVars>>

\* html2canvas rejected, or a later step of the try block threw
ExportFails ==
    /\ exports > 0
    /\ noticeTimers < MaxNoticeTimers
    /\ exports' = exports - 1
    /\ feedback' = generatePdfBlob(TRUE, feedback).feedback
    /\ noticeTimers' = noticeTimers + generatePdfBlob(TRUE, feedback).armed
    /\ downloads' =
          handleDownloadPdfResume(generatePdfBlob(TRUE, feedback).blob, downloads).downloads
    /\ isDownloading' =
          handleDownloadPdfResume(generatePdfBlob(TRUE, feedback).blob, downloads).isDownloading
    /\ UNCHANGED <<mounted, uncaughtError, invoice, totals, num, words, storage,
                   timers, autoSaveTimeoutRef, nextTimerId, clock,
                   contrastVars, groupVars, uploadVars>>

ExportNext ==
    \/ Mount
    \/ ChangeInvoiceNumber
    \/ DownloadPdf
    \/ DownloadPdfThrowsAtOnce
    \/ ExportDone
    \/ ExportFails
    \/ AutosaveWrite
    \/ NoticeTimeout

SpecExport == Init /\ [][ExportNext]_vars

\* The promise of html2canvas settles, and the timers that dismiss a notice
\* fire.
FairSpecExport ==
    /\ Init
    /\ [][ExportNext]_vars
    /\ WF_vars(ExportDone \/ ExportFails)
    /\ WF_vars(NoticeTimeout)

(***************************************************************************)
(* The calculation engine on its own: the memo recomputed for inputs drawn *)
(* from bounded sets.  The other variables stay as they are.               *)
(***************************************************************************)
MaxCalcItems == 2

\* quantity and price of the items tried, finite and not
CalcItems ==
    { [id |-> 1, quantity |-> Num(2), price |-> Num(100)],
      [id |-> 1, quantity |-> Num(1), price |-> Num(50)],
      [id |-> 1, quantity |-> Num(0), price |-> Infinity],
      [id |-> 1, quantity |-> Num(1), price |-> Infinity],
      [id |-> 1, quantity |-> Num(1), price |-> NegInfinity] }

CalcRates(k) ==
    IF k = "discountRate" THEN {Num(0), Num(10), Infinity}
    ELSE {Num(0), Num(9), Infinity}

RECURSIVE SeqsUpTo(_, _)
SeqsUpTo(S, n) ==
    IF n = 0 THEN {<<>>}
    ELSE SeqsUpTo(S, n - 1)
         \cup {Append(q, x) : q \in {r \in SeqsUpTo(S, n - 1) : Len(r) = n - 1}, x \in S}

CalcInit ==
    /\ mounted = FALSE
    /\ uncaughtError = FALSE
    /\ \E items \in SeqsUpTo(CalcItems, MaxCalcItems) :
       \E d \in CalcRates("discountRate"), c \in CalcRates("cgstRate"),
          g \in CalcRates("sgstRate"), i \in CalcRates("igstRate"),
          t \in CalcRates("taxRate") :
          invoice = [getInitialInvoiceState EXCEPT
                        !.items = items, !.discountRate = d, !.cgstRate = c,
                        !.sgstRate = g, !.igstRate = i, !.taxRate = t]
    /\ totals = calculations(invoice)
    /\ num = calculations(invoice).total
    /\ words = toWords(calculations(invoice).total)
    /\ storage = NoDraft
    /\ timers = {}
    /\ autoSaveTimeoutRef = 0
    /\ nextTimerId = 1
    /\ feedback = NoFeedback
    /\ noticeTimers = 0
    /\ clock = FirstClock
    /\ IdleIo

\* one rate changes and the memo is recomputed
CalcSetRate ==
    /\ \E k \in RateFields : \E v \in CalcRates(k) :
          /\ invoice' = handleInvoiceChange(invoice, k, v)
          /\ Render(invoice')
    /\ UNCHANGED appVars

\* an item is appended and the memo is recomputed
CalcAddItem ==
    /\ Len(invoice.items) < MaxCalcItems
    /\ \E it \in CalcItems :
          /\ invoice' = handleInvoiceChange(invoice, "items", Append(invoice.items, it))
          /\ Render(invoice')
    /\ UNCHANGED appVars

\* the first item is removed and the memo is recomputed
CalcDropItem ==
    /\ invoice.items # <<>>
    /\ invoice' = handleInvoiceChange(invoice, "items", Tail(invoice.items))
    /\ Render(invoice')
    /\ UNCHANGED appVars

CalcNext == CalcSetRate \/ CalcAddItem \/ CalcDropItem

SpecCalc == CalcInit /\ [][CalcNext]_vars

(***************************************************************************)
(* toWords on its own, applied to amounts drawn from bounded sets          *)
(***************************************************************************)
\* whole rupees 0 .. MaxSmallRupees are tried with every fraction
MaxSmallRupees == 21

\* thousandths of a rupee; none lies halfway between two paise, where the
\* binary fraction of the amount would decide the rounding
WordThousandths == {0, 4, 6, 10, 500, 990, 994, 996, 999}

\* whole amounts that reach the hundred, thousand, lakh and crore groups
WordLarge == {100, 101, 120, 999, 1000, 1001, 99999, 100000, 1234567,
              10000000, 123456789, 2147483647}

WordInputs ==
    {NaN, Infinity, NegInfinity}
    \cup {Dec(s * (r * 1000 + f), 3) :
             r \in 0 .. MaxSmallRupees, f \in WordThousandths, s \in {1, -1}}
    \cup {Dec(s * n, 0) : n \in WordLarge, s \in {1, -1}}
    \cup {Dec(n * 100 + 50, 2) : n \in {100, 1000, 10000000}}

WordsInit ==
    /\ num \in WordInputs
    /\ words = toWords(num)
    /\ mounted = FALSE
    /\ uncaughtError = FALSE
    /\ invoice = NoInvoice
    /\ totals = calculations(NoInvoice)
    /\ storage = NoDraft
    /\ timers = {}
    /\ autoSaveTimeoutRef = 0
    /\ nextTimerId = 1
    /\ feedback = NoFeedback
    /\ noticeTimers = 0
    /\ clock = FirstClock
    /\ IdleIo

\* toWords(x) is called
WordsCall ==
    /\ \E x \in WordInputs :
          /\ num' = x
          /\ words' = toWords(x)
    /\ UNCHANGED <<invoice, totals>>
    /\ UNCHANGED appVars

WordsNext == WordsCall

SpecWords == WordsInit /\ [][WordsNext]_vars

(***************************************************************************)
(* getContrastColor on its own, applied to colour strings drawn from a     *)
(* bounded set                                                             *)
(***************************************************************************)
\* two characters of a colour string: hex digits of both cases, and a
\* character that is no digit in either place
ContrastPairs ==
    { <<"0", "0">>, <<"7", "f">>, <<"8", "0">>, <<"f", "f">>, <<"F", "F">>,
      <<"f", "g">>, <<"g", "f">> }

\* strings of another length, strings whose '#' does not lead, and strings
\* with white space, a sign or a 0x prefix among their six characters
ContrastOddInputs ==
    { <<>>, <<"#">>, <<"#", "f", "f", "f">>, <<"f", "f", "f", "f", "f">>,
      <<"f", "f", "f", "f", "f", "f", "f">>,
      <<"#", "f", "f", "f", "f", "f", "f", "f">>,
      <<"#", "#", "f", "f", "f", "f", "f", "f">>,
      <<"f", "f", "f", "f", "f", "f", "#">>,
      <<"f", "f", "f", "#", "f", "f", "f">>,
      <<"#", "#", "f", "f", "f", "f", "f">>,
      <<"#", "f", "f", "f", "f", " ", "f">>,
      <<"#", "f", "f", "f", "f", "f", " ">>,
      <<"#", "-", "f", "f", "f", "f", "f">>,
      <<"#", "f", "f", "f", "f", "-", "f">>,
      <<"#", "f", "f", "f", "f", "+", "f">>,
      <<"#", "f", "f", "f", "f", "0", "x">>,
      <<"#", "8", "1", "8", "1", "8", "1">> }

ContrastInputs ==
    {p \o q \o r : p \in ContrastPairs, q \in ContrastPairs, r \in ContrastPairs}
    \cup {<<"#">> \o p \o q \o r :
             p \in ContrastPairs, q \in ContrastPairs, r \in ContrastPairs}
    \cup ContrastOddInputs

ContrastInit ==
    /\ hexColor \in ContrastInputs
    /\ contrastColor = getContrastColor(hexColor)
    /\ mounted = FALSE
    /\ uncaughtError = FALSE
    /\ invoice = NoInvoice
    /\ totals = calculations(NoInvoice)
    /\ num = Num(0)
    /\ words = <<>>
    /\ storage = NoDraft
    /\ timers = {}
    /\ autoSaveTimeoutRef = 0
    /\ nextTimerId = 1
    /\ feedback = NoFeedback
    /\ noticeTimers = 0
    /\ clock = FirstClock
    /\ isLogoUploading = FALSE
    /\ readers = 0
    /\ images = <<>>
    /\ isDownloading = FALSE
    /\ exports = 0
    /\ downloads = 0
    /\ bigNumberPart = [crore |-> 0, tempNum |-> 0]
    /\ bigRupeesInWords = <<>>

\* getContrastColor(c) is called
ContrastCall ==
    /\ \E c \in ContrastInputs :
          /\ hexColor' = c
          /\ contrastColor' = getContrastColor(c)
    /\ UNCHANGED <<mounted, uncaughtError, invoice, totals, num, words, storage,
                   timers, autoSaveTimeoutRef, nextTimerId, feedback,
                   noticeTimers, clock, uploadVars, exportVars, groupVars>>

ContrastNext == ContrastCall

SpecContrast == ContrastInit /\ [][ContrastNext]_vars

(***************************************************************************)
(* Properties of the autosave and of the startup load                      *)
(***************************************************************************)
\* C1: at most one autosave timer is pending in every reachable state, and
\* every step that changes the invoice of the mounted App leaves exactly one
\* pending timer: a new one (its id was not pending before) that holds the
\* new invoice; the timer pending before the change is gone.
C1_OneTimerPending ==
    /\ [](Cardinality(timers) <= 1)
    /\ [][(mounted' /\ invoice' # invoice) =>
             /\ timers' = {[id |-> autoSaveTimeoutRef', invoice |-> invoice']}
             /\ autoSaveTimeoutRef' \notin {t.id : t \in timers}
             /\ timers' \cap timers = {}]_vars

\* a second timer has been armed after a change and is the only one pending
C1_Witness ==
    /\ mounted
    /\ autoSaveTimeoutRef >= 2
    /\ timers = {[id |-> autoSaveTimeoutRef, invoice |-> invoice]}

\* C2: every step that stores a draft stores the JSON text of the invoice
\* held in memory at that moment, never that of a snapshot a later mutation
\* has replaced.
C2_LatestWritten ==
    [][storage' # storage => storage' = Draft("object", JSONstringify(invoice))]_vars

\* a draft was written after a mutation, and it is the current invoice
C2_Witness ==
    /\ mounted
    /\ autoSaveTimeoutRef >= 2
    /\ storage \notin InitialDrafts
    /\ storage = Draft("object", JSONstringify(invoice))
    /\ invoice # getInitialInvoiceState

\* a step in which an autosave timer fired and its write threw: the timer is
\* consumed and a notice timer is armed
WriteFailedStep ==
    /\ mounted /\ mounted'
    /\ timers' # timers
    /\ timers' \subseteq timers
    /\ storage' = storage
    /\ (noticeTimers' = noticeTimers + 1 \/ uncaughtError')

\* C3: when the autosave write throws, the error is caught (none escapes),
\* the error notice is raised, the invoice in memory is unchanged and the
\* App stays mounted.
C3_WriteFailureKept ==
    [][WriteFailedStep =>
          /\ ~uncaughtError'
          /\ feedback' = SaveFailedNotice
          /\ invoice' = invoice
          /\ totals' = totals]_vars

\* after a failed write, with its notice still showing, a mutation was
\* accepted: its autosave timer is pending
C3_Witness ==
    /\ mounted
    /\ feedback = SaveFailedNotice
    /\ timers = {[id |-> autoSaveTimeoutRef, invoice |-> invoice]}
    /\ storage = NoDraft
    /\ invoice # getInitialInvoiceState

\* the drafts the startup load treats as absent or malformed: nothing
\* stored, text that does not parse, and null, which cannot be merged
AbsentOrMalformed(draft) == draft.kind \in {"absent", "empty", "invalid", "null"}

\* C4: when the page is opened with no draft stored, or with a malformed
\* one, the App mounts with exactly the defaults and no error escapes.
C4_StartupDefaults ==
    [][(~mounted /\ AbsentOrMalformed(storage)) =>
          /\ mounted'
          /\ ~uncaughtError'
          /\ invoice' = getInitialInvoiceState]_vars

\* the App has just mounted on a malformed draft, with the defaults
C4_Witness ==
    /\ mounted
    /\ storage.kind \in {"invalid", "null"}
    /\ autoSaveTimeoutRef = 1
    /\ invoice = getInitialInvoiceState
    /\ timers = {[id |-> 1, invoice |-> getInitialInvoiceState]}

\* merge(defaults, S) as the round trip is meant to give it: S's value for
\* every field of S, the default for every other field, and the default
\* theme color when S has no themeColor or an empty one
ExpectedMerge(S) ==
    [f \in DOMAIN getInitialInvoiceState \cup DOMAIN S |->
        IF f = "themeColor" /\ (f \notin DOMAIN S \/ S[f] = "")
        THEN DEFAULT_THEME_COLOR
        ELSE IF f \in DOMAIN S THEN S[f]
        ELSE getInitialInvoiceState[f]]

\* every number of the invoice is finite
AllFinite(S) ==
    /\ \A k \in RateFields : isFinite(S[k])
    /\ \A i \in DOMAIN S.items : isFinite(S.items[i].quantity) /\ isFinite(S.items[i].price)

\* C5: for every invoice S the App can hold, saving S and then loading
\* yields merge(defaults, S), with the default theme color for a missing or
\* empty themeColor.
C5_RoundTrip ==
    mounted =>
        loadInitialState(Draft("object", JSONstringify(invoice))).value
            = ExpectedMerge(invoice)

(***************************************************************************)
(* Properties of the calculation engine                                    *)
(***************************************************************************)
\* the sum over all items of quantity * price, last item first
RECURSIVE SumOfItems(_)
SumOfItems(items) ==
    IF items = <<>> THEN Num(0)
    ELSE NumAdd(SumOfItems(Tail(items)), NumMul(Head(items).quantity, Head(items).price))

\* C6 as stated: the subtotal is the sum over all items of quantity * price,
\* and for the empty sequence the subtotal is 0 and the total is 0.
C6_Original ==
    /\ totals.subtotal = SumOfItems(invoice.items)
    /\ invoice.items = <<>> => (totals.subtotal = Num(0) /\ totals.total = Num(0))

\* C6: the subtotal is the sum over all items of quantity * price; for the
\* empty sequence the subtotal is 0, and the total is 0 when every rate is a
\* finite number.
C6_SubtotalIsSum ==
    /\ totals.subtotal = SumOfItems(invoice.items)
    /\ invoice.items = <<>> =>
          /\ totals.subtotal = Num(0)
          /\ (\A k \in RateFields : isFinite(invoice[k])) => totals.total = Num(0)

\* no items, a discount and a tax at finite nonzero rates, and a total of 0
C6_WitnessEmpty ==
    /\ invoice.items = <<>>
    /\ invoice.discountRate = Num(10)
    /\ invoice.cgstRate = Num(9)
    /\ \A k \in RateFields : isFinite(invoice[k])
    /\ totals.total = Num(0)

\* C7: total = taxableAmount + cgstAmount + sgstAmount + igstAmount +
\* genericTaxAmount, taxableAmount = subtotal - discountAmount and
\* discountAmount = subtotal * discountRate / 100, for every input.
C7_TotalIdentity ==
    /\ totals.total =
          NumAdd(NumAdd(NumAdd(NumAdd(totals.taxableAmount, totals.cgstAmount),
                               totals.sgstAmount), totals.igstAmount),
                 totals.genericTaxAmount)
    /\ totals.taxableAmount = NumSub(totals.subtotal, totals.discountAmount)
    /\ totals.discountAmount = NumDiv100(NumMul(SumOfItems(invoice.items), invoice.discountRate))

\* the worked example: 2 x 100 and 1 x 50, 10% discount, 9% CGST and SGST
C7_WitnessExample ==
    /\ Len(invoice.items) = 2
    /\ invoice.discountRate = Num(10)
    /\ invoice.cgstRate = Num(9) /\ invoice.sgstRate = Num(9)
    /\ invoice.igstRate = Num(0) /\ invoice.taxRate = Num(0)
    /\ totals.subtotal = Num(250)
    /\ totals.discountAmount = Num(25)
    /\ totals.taxableAmount = Num(225)
    /\ totals.cgstAmount = Dec(2025, 2)
    /\ totals.total = Dec(2655, 1)

\* the amount of the tax with rate field k
TaxAmountOf(t, k) ==
    IF k = "cgstRate" THEN t.cgstAmount
    ELSE IF k = "sgstRate" THEN t.sgstAmount
    ELSE IF k = "igstRate" THEN t.igstAmount
    ELSE t.genericTaxAmount

TaxRateFields == {"cgstRate", "sgstRate", "igstRate", "taxRate"}

\* C8: each tax amount is taxableAmount * its own rate / 100, and a step
\* that changes one tax rate only leaves the other three tax amounts, the
\* subtotal, the discount and the taxable amount as they were.
C8_TaxesAdditive ==
    /\ [](\A k \in TaxRateFields :
             TaxAmountOf(totals, k) = NumDiv100(NumMul(totals.taxableAmount, invoice[k])))
    /\ [][\A k \in TaxRateFields :
             (/\ invoice'[k] # invoice[k]
              /\ \A f \in DOMAIN invoice \ {k} : invoice'[f] = invoice[f])
             => /\ \A j \in TaxRateFields \ {k} : TaxAmountOf(totals', j) = TaxAmountOf(totals, j)
                /\ totals'.subtotal = totals.subtotal
                /\ totals'.discountAmount = totals.discountAmount
                /\ totals'.taxableAmount = totals.taxableAmount]_vars

\* CGST and SGST both at 9% of the same taxable amount of 225
C8_Witness ==
    /\ totals.taxableAmount = Num(225)
    /\ invoice.cgstRate = Num(9) /\ invoice.sgstRate = Num(9)
    /\ totals.cgstAmount = Dec(2025, 2)
    /\ totals.sgstAmount = Dec(2025, 2)
    /\ totals.taxAmount = Dec(405, 1)

(***************************************************************************)
(* Properties of toWords                                                   *)
(***************************************************************************)
\* the number a word names: 0-19 from the ones table, 20-90 from the tens
\* table, in either case of the first letter; -1 for any other word
WordNumber(w) ==
    IF w = "Zero" THEN 0
    ELSE IF w # "" /\ \E i \in DOMAIN ones : ones[i] = w \/ upperWords[i] = w
    THEN (CHOOSE i \in DOMAIN ones : ones[i] = w \/ upperWords[i] = w) - 1
    ELSE IF w # "" /\ \E i \in DOMAIN tens : tens[i] = w \/ upperTens[i] = w
    THEN 10 * ((CHOOSE i \in DOMAIN tens : tens[i] = w \/ upperTens[i] = w) - 1)
    ELSE -1

\* the number a sequence of number words reads as, in the Indian grouping;
\* -1 when a word of it is not a number word
RECURSIVE ReadWords(_, _, _, _)
ReadWords(ws, i, total, cur) ==
    IF i > Len(ws) THEN total + cur
    ELSE IF ws[i] = "and" THEN ReadWords(ws, i + 1, total, cur)
    ELSE IF ws[i] = "hundred" THEN ReadWords(ws, i + 1, total, cur * 100)
    ELSE IF ws[i] = "thousand" THEN ReadWords(ws, i + 1, total + cur * 1000, 0)
    ELSE IF ws[i] = "lakh" THEN ReadWords(ws, i + 1, total + cur * 100000, 0)
    ELSE IF ws[i] = "crore" THEN ReadWords(ws, i + 1, total + cur * 10000000, 0)
    ELSE IF WordNumber(ws[i]) >= 0 THEN ReadWords(ws, i + 1, total, cur + WordNumber(ws[i]))
    ELSE -1

WordsValue(ws) == IF ws = <<>> THEN -1 ELSE ReadWords(ws, 1, 0, 0)

\* ws is "<words of n> Rupees", then " and <words of p> Paise" exactly when
\* p is not 0, then " Only"
RupeesThenPaise(ws, n, p) ==
    \E i \in 2 .. Len(ws) :
        /\ ws[i] = "Rupees"
        /\ WordsValue(SubSeq(ws, 1, i - 1)) = n
        /\ IF p # 0
           THEN /\ Len(ws) >= i + 4
                /\ ws[i + 1] = "and"
                /\ WordsValue(SubSeq(ws, i + 2, Len(ws) - 2)) = p
                /\ ws[Len(ws) - 1] = "Paise"
                /\ ws[Len(ws)] = "Only"
           ELSE /\ Len(ws) = i + 1
                /\ ws[Len(ws)] = "Only"

\* ws is "<words of p> Paise Only", with no Rupees clause
PaiseAlone(ws, p) ==
    /\ Len(ws) >= 3
    /\ WordsValue(SubSeq(ws, 1, Len(ws) - 2)) = p
    /\ ws[Len(ws) - 1] = "Paise"
    /\ ws[Len(ws)] = "Only"
    /\ \A i \in DOMAIN ws : ws[i] # "Rupees"

\* C9: a non-finite amount (NaN, +Infinity, -Infinity) gives the
\* invalid-amount indication, zero gives "Zero Rupees Only" and 100 gives
\* "One hundred Rupees Only".
C9_SpecialCases ==
    /\ ~isFinite(num) => words = <<"Invalid", "Number">>
    /\ num = Num(0) => words = <<"Zero", "Rupees", "Only">>
    /\ num = Num(100) => words = <<"One", "hundred", "Rupees", "Only">>

\* toWords was called with -Infinity
C9_Witness == num = NegInfinity /\ words = <<"Invalid", "Number">>

RendersAmount(ws, n, p) ==
    IF n = 0 /\ p # 0 THEN PaiseAlone(ws, p) ELSE RupeesThenPaise(ws, n, p)

SixHexDigits(s) ==
    LET d == IF s # <<>> /\ Head(s) = "#" THEN Tail(s) ELSE s
    IN  Len(d) = 6 /\ \A i \in 1 .. 6 : hexDigitValue(d[i]) >= 0

\* 299*R + 587*G + 114*B of a colour string of six hex digits
Luma1000(s) ==
    LET d == IF Head(s) = "#" THEN Tail(s) ELSE s
        R == 16 * hexDigitValue(d[1]) + hexDigitValue(d[2])
        G == 16 * hexDigitValue(d[3]) + hexDigitValue(d[4])
        B == 16 * hexDigitValue(d[5]) + hexDigitValue(d[6])
    IN  299 * R + 587 * G + 114 * B

\* the part of C11 about colours of six hex digits: black exactly when
\* (299*R + 587*G + 114*B)/1000 >= 128, white otherwise
ContrastOfSixHexDigits ==
    SixHexDigits(hexColor) =>
        contrastColor = IF Luma1000(hexColor) >= 128000 THEN "#000000" ELSE "#ffffff"

\* C11: getContrastColor returns black exactly when the luma
\* (299*R + 587*G + 114*B)/1000 of a colour of six hex digits (with or
\* without a leading '#') is at least 128 and white otherwise, and it returns
\* white for every malformed input (empty, wrong length, a character that is
\* no hex digit).
C11_ContrastColor ==
    /\ ContrastOfSixHexDigits
    /\ ~SixHexDigits(hexColor) => contrastColor = "#ffffff"

(***************************************************************************)
(* Properties of the items and of the logo                                 *)
(***************************************************************************)
\* C12: in every reachable state of the mounted App no two items of the
\* invoice have the same id, also after two addItem calls for which the clock
\* returned the same millisecond.
C12_UniqueItemIds ==
    mounted =>
        \A i, j \in DOMAIN invoice.items :
            i # j => invoice.items[i].id # invoice.items[j].id

\* C13: for the item sequence L of every reachable state and every value the
\* clock may return, addItem followed by removeItem with the id of the item
\* just added yields L again, the same items in the same order.
C13_AddThenRemove ==
    mounted =>
        \A time \in clock .. MaxClock :
            handleRemoveItem(handleAddItem(invoice, time), time).items = invoice.items

\* the ids removeItem is tried with: those of the items and others
RemoveIds == 0 .. MaxClock + 1

\* R holds exactly the items of L whose id is not id, in the order of L
RestInOrder(L, R, id) ==
    /\ Len(R) = Cardinality({i \in DOMAIN L : L[i].id # id})
    /\ \E f \in [DOMAIN R -> DOMAIN L] :
          /\ \A k \in DOMAIN R : R[k] = L[f[k]] /\ L[f[k]].id # id
          /\ \A k, l \in DOMAIN R : k < l => f[k] < f[l]

\* C14: removeItem(id) with an id no item has leaves the invoice as it is;
\* with the id of an item, the items of other ids remain in their order; and
\* every step of the remove button leaves such a sequence.
C14_RemoveItem ==
    /\ [](mounted =>
            \A id \in RemoveIds :
               /\ (\A i \in DOMAIN invoice.items : invoice.items[i].id # id)
                     => handleRemoveItem(invoice, id) = invoice
               /\ RestInOrder(invoice.items, handleRemoveItem(invoice, id).items, id))
    /\ [][RemoveItem =>
             \E id \in RemoveIds : RestInOrder(invoice.items, invoice'.items, id)]_vars

\* the default item was removed from a sequence of two: the added item
\* remains, and the id 1 now matches no item
C14_Witness ==
    /\ mounted
    /\ Len(invoice.items) = 1
    /\ invoice.items[1].id # 1

\* C15: a step of handleRemoveLogo leaves the invoice with logo null and
\* themeColor DEFAULT_THEME_COLOR, and with every other field as it was.
C15_RemoveLogoFrame ==
    [][RemoveLogo =>
          /\ invoice'.logo = null
          /\ invoice'.themeColor = DEFAULT_THEME_COLOR
          /\ DOMAIN invoice' = DOMAIN invoice
          /\ \A f \in DOMAIN invoice \ {"logo", "themeColor"} :
                invoice'[f] = invoice[f]]_vars

\* the logo of the stored draft was removed from the invoice that carries
\* the invoice number of that draft
C15_Witness ==
    /\ mounted
    /\ invoice.logo = null
    /\ invoice.themeColor = DEFAULT_THEME_COLOR
    /\ invoice.invoiceNumber = "INV-7"
    /\ storage.kind = "object"
    /\ "logo" \in DOMAIN storage.obj
    /\ storage.obj["logo"] = "data:logo"

(***************************************************************************)
(* Properties of the logo upload                                           *)
(***************************************************************************)
\* C16: every upload that set isLogoUploading is followed by a state where
\* the flag is false; each exit path (colour extracted, ColorThief threw,
\* image error, read error) leaves it false; and the flag turns true only in
\* the step that starts an upload, so it stays false until then.
C16_UploadFlagCleared ==
    /\ isLogoUploading ~> ~isLogoUploading
    /\ [][(ImageLoad \/ ImageLoadColorThiefThrows \/ ImageError \/ ReaderError)
             => ~isLogoUploading']_vars
    /\ [][(~isLogoUploading /\ isLogoUploading') => readers' = readers + 1]_vars

\* an upload has ended with an image error: the notice shows, the flag is
\* cleared and the file input is enabled again
C16_Witness ==
    /\ mounted
    /\ ~isLogoUploading
    /\ readers = 0
    /\ images = <<>>
    /\ invoice.logo \in UploadedLogos
    /\ feedback = ImageFailedNotice

\* an error notice is raised in this step
ErrorNoticeRaised ==
    /\ noticeTimers' = noticeTimers + 1
    /\ feedback'.type = "error"

\* C17: on every upload failure (the file read fails, the image fails to
\* decode, colour extraction throws) the busy flag is reset, themeColor is
\* the default theme colour and an error notice is raised.
C17_UploadFailureRecovery ==
    [][(ReaderError \/ ImageError \/ ImageLoadColorThiefThrows) =>
          /\ ~isLogoUploading'
          /\ invoice'.themeColor = DEFAULT_THEME_COLOR
          /\ ErrorNoticeRaised]_vars

\* what the code does on each failure: the flag is reset on all three; the
\* notice is raised on a read error and on an image error, which leave
\* themeColor as it was; themeColor falls back to the default when colour
\* extraction throws, and no notice is raised then
UploadFailureAsCoded ==
    /\ [][ReaderError =>
             /\ ~isLogoUploading' /\ ErrorNoticeRaised
             /\ invoice'.themeColor = invoice.themeColor /\ invoice'.logo = null]_vars
    /\ [][ImageError =>
             ~isLogoUploading' /\ ErrorNoticeRaised /\ invoice' = invoice]_vars
    /\ [][ImageLoadColorThiefThrows =>
             /\ ~isLogoUploading' /\ invoice'.themeColor = DEFAULT_THEME_COLOR
             /\ noticeTimers' = noticeTimers /\ feedback' = feedback]_vars

(***************************************************************************)
(* Properties of the PDF export                                            *)
(***************************************************************************)
\* C18: a click on Download PDF while invoiceNumber is empty or only white
\* space raises the error notice and does nothing else: isDownloading is not
\* set, generatePdfBlob is not called, no file is downloaded.
C18_ExportPrecondition ==
    [][((DownloadPdf \/ DownloadPdfThrowsAtOnce) /\ trim(invoice.invoiceNumber) = "") =>
          /\ feedback' = EmptyNumberNotice
          /\ noticeTimers' = noticeTimers + 1
          /\ ~isDownloading'
          /\ exports' = 0
          /\ downloads' = downloads]_vars

\* the notice of the rejected export shows over an invoice number of white
\* space only
C18_Witness ==
    /\ mounted
    /\ invoice.invoiceNumber = "   "
    /\ feedback = EmptyNumberNotice
    /\ ~isDownloading
    /\ exports = 0
    /\ downloads = 0

\* C19: at most one export is in flight; while one is, isDownloading is true
\* (the button is disabled); and an export starts only in a state where
\* isDownloading is false.
C19_OneExportInFlight ==
    /\ [](exports <= 1)
    /\ [](exports > 0 => isDownloading)
    /\ [][exports' > exports => (~isDownloading /\ exports = 0)]_vars

\* a second export is in flight after the first one has downloaded its file
C19_Witness ==
    /\ exports = 1
    /\ isDownloading
    /\ downloads = 1

\* C20: a step in which the try block of generatePdfBlob throws raises the
\* error notice, downloads no file and lets no error escape; isDownloading
\* always returns to false; and the number of downloaded files changes only
\* by one, in a step in which generatePdfBlob returned a blob.
C20_ExportFailure ==
    /\ [][(ExportFails \/ DownloadPdfThrowsAtOnce) =>
             /\ feedback' = PdfFailedNotice
             /\ noticeTimers' = noticeTimers + 1
             /\ downloads' = downloads
             /\ ~isDownloading'
             /\ ~uncaughtError']_vars
    /\ isDownloading ~> ~isDownloading
    /\ [][downloads' # downloads => (ExportDone /\ downloads' = downloads + 1)]_vars

\* after an export that failed, whose notice still shows, a later export is
\* in flight
C20_Witness ==
    /\ feedback = PdfFailedNotice
    /\ exports = 1
    /\ isDownloading
    /\ downloads = 0

(***************************************************************************)
(* Properties of the transient notice.  The notice timers all have the     *)
(* delay of 3000 ms, so they fire in the order they were armed: the notice *)
(* on display is the one raised last, and its timer is the one armed last. *)
(***************************************************************************)
\* C21: a notice on display is dismissed only by its own timer, 3 seconds
\* after it was raised: in a step of the mounted App that takes the notice
\* away, no timer of an earlier notice is pending, so the timer that fires is
\* the one armed with the notice.
C21_NoticeShownThreeSeconds ==
    [][(mounted' /\ feedback # NoFeedback /\ feedback' = NoFeedback)
          => noticeTimers = 1]_vars

(***************************************************************************)
(* Properties of the items under handlers called from one render           *)
(***************************************************************************)
\* items edited through the form: quantity or price of an item replaced
EditedItems(item) ==
    {[item EXCEPT !.quantity = v] : v \in AppNumbers}
    \cup {[item EXCEPT !.price = v] : v \in AppNumbers}

\* an upload callback (reader.onloadend, image.onload) between the render and
\* an items handler takes nothing from the items, in either order
ItemsKeptAcrossUploadCallbacks ==
    mounted =>
        \A time \in clock .. MaxClock : \A url \in UploadedLogos \cup {null} :
        \A c \in DominantColors :
            /\ dispatchAddItem(readerOnloadend(invoice, url).invoice, invoice, time)
                  = handleAddItem(readerOnloadend(invoice, url).invoice, time)
            /\ dispatchAddItem(imageOnload(invoice, c, FALSE).invoice, invoice, time)
                  = handleAddItem(imageOnload(invoice, c, FALSE).invoice, time)
            /\ readerOnloadend(dispatchAddItem(invoice, invoice, time), url).invoice.items
                  = handleAddItem(invoice, time).items

\* C22: every addItem, removeItem and updateItem is applied to the items as
\* the preceding mutation left them, also when the second of two operations
\* is called before the render that follows the first (so that both close
\* over the same render), and when an upload callback comes in between.
C22_NoLostUpdate ==
    /\ ItemsKeptAcrossUploadCallbacks
    /\ mounted =>
          \A t1 \in clock .. MaxClock : \A t2 \in t1 .. MaxClock :
             /\ dispatchAddItem(handleAddItem(invoice, t1), invoice, t2)
                   = handleAddItem(handleAddItem(invoice, t1), t2)
             /\ \A i \in DOMAIN invoice.items :
                   /\ dispatchRemoveItem(handleAddItem(invoice, t1), invoice,
                                         invoice.items[i].id)
                         = handleRemoveItem(handleAddItem(invoice, t1),
                                            invoice.items[i].id)
                   /\ \A u \in EditedItems(invoice.items[i]) :
                         dispatchAddItem(handleItemChange(invoice, i, u), invoice, t1)
                            = handleAddItem(handleItemChange(invoice, i, u), t1)

(***************************************************************************)
(* The grouping of toWords on its own: numberPart is given by its crore    *)
(* group and the rest below one crore, so that amounts of 2^31 and more    *)
(* are covered.                                                            *)
(***************************************************************************)
MaxCrore == 2000

\* Math.floor(numberPart / 10000000): one, two, three and four digits
GroupCrores == {0, 1, 19, 20, 99, 100, 101, 999, 1000, 1234, 1999, MaxCrore}

\* numberPart % 10000000: with and without a lakh, a thousand and a remainder
GroupRests ==
    {0, 1, 20, 999, 1000, 21000, 99999, 100000, 100001, 1234567, 5000000, 9999999}

\* the numberPart values of which toWords words the groups: numberPart > 0
GroupInputs ==
    { [crore |-> c, tempNum |-> t] : c \in GroupCrores, t \in GroupRests }
        \ { [crore |-> 0, tempNum |-> 0] }

GroupsInit ==
    /\ bigNumberPart \in GroupInputs
    /\ bigRupeesInWords = groupWords(bigNumberPart.crore, bigNumberPart.tempNum)
    /\ hexColor = <<>>
    /\ contrastColor = "#ffffff"
    /\ mounted = FALSE
    /\ uncaughtError = FALSE
    /\ invoice = NoInvoice
    /\ totals = calculations(NoInvoice)
    /\ num = Num(0)
    /\ words = <<>>
    /\ storage = NoDraft
    /\ timers = {}
    /\ autoSaveTimeoutRef = 0
    /\ nextTimerId = 1
    /\ feedback = NoFeedback
    /\ noticeTimers = 0
    /\ clock = FirstClock
    /\ isLogoUploading = FALSE
    /\ readers = 0
    /\ images = <<>>
    /\ isDownloading = FALSE
    /\ exports = 0
    /\ downloads = 0

\* toWords words the groups of a numberPart
GroupsCall ==
    /\ \E n \in GroupInputs :
          /\ bigNumberPart' = n
          /\ bigRupeesInWords' = groupWords(n.crore, n.tempNum)
    /\ UNCHANGED <<mounted, uncaughtError, invoice, totals, num, words, storage,
                   timers, autoSaveTimeoutRef, nextTimerId, feedback,
                   noticeTimers, clock, contrastVars, uploadVars, exportVars>>

GroupsNext == GroupsCall

SpecGroups == GroupsInit /\ [][GroupsNext]_vars

(***************************************************************************)
(* Properties of the grouping of toWords                                   *)
(***************************************************************************)
\* the words of the ones table (1-19) and of the tens table (20-90)
TableWords ==
    ({ ones[i] : i \in DOMAIN ones } \cup { tens[i] : i \in DOMAIN tens }) \ {""}

\* ws are words of the two tables, with "hundred" and "and", and read as n
WellDefinedWords(ws, n) ==
    /\ \A i \in DOMAIN ws : ws[i] \in TableWords \cup {"hundred", "and"}
    /\ WordsValue(ws) = n

\* the words of one group: none when the group is 0
GroupRendered(n, unit) ==
    IF n > 0 THEN convertLessThanOneThousand(n) \o unit ELSE <<>>

\* C23: for every positive integer part n = crore*10^7 + lakh*10^5 +
\* thousand*10^3 + rest, with lakh and thousand in 0..99 and rest in 0..999,
\* the words of toWords are the words of the nonzero groups in that order,
\* and every nonzero group is rendered by the sub-converter as well-defined
\* number words of the ones and tens tables, hundreds joined by "and", that
\* read as the group - for every size of the crore group.
C23_Grouping ==
    LET crore == bigNumberPart.crore
        lakh == bigNumberPart.tempNum \div 100000
        thousand == (bigNumberPart.tempNum % 100000) \div 1000
        rest == bigNumberPart.tempNum % 1000
    IN  /\ lakh \in 0 .. 99 /\ thousand \in 0 .. 99 /\ rest \in 0 .. 999
        /\ bigRupeesInWords =
              GroupRendered(crore, <<"crore">>) \o GroupRendered(lakh, <<"lakh">>)
                 \o GroupRendered(thousand, <<"thousand">>) \o GroupRendered(rest, <<>>)
        /\ \A g \in {crore, lakh, thousand, rest} :
              g > 0 => WellDefinedWords(convertLessThanOneThousand(g), g)

\* the same for a crore group that the ones table can word the hundreds of
C23_GroupingBelow2000Crore ==
    bigNumberPart.crore < 2000 => C23_Grouping

(***************************************************************************)
(* Properties of the Paise clause of toWords                               *)
(***************************************************************************)
\* the place of word w in ws; 0 when ws does not hold it
IndexOfWord(ws, w) ==
    IF \E i \in DOMAIN ws : ws[i] = w THEN CHOOSE i \in DOMAIN ws : ws[i] = w ELSE 0

\* the number of rupees that ws words: 0 without a Rupees clause
RupeesWorded(ws) ==
    LET r == IndexOfWord(ws, "Rupees")
    IN  IF r = 0 THEN 0 ELSE WordsValue(SubSeq(ws, 1, r - 1))

\* the number of paise that ws words, ws having a Paise clause
PaiseWorded(ws) ==
    LET r == IndexOfWord(ws, "Rupees")
        first == IF r = 0 THEN 1 ELSE r + 2
    IN  WordsValue(SubSeq(ws, first, IndexOfWord(ws, "Paise") - 1))

\* the integer part of a >= 0 rounded to 2 decimals
RupeesOfRounded(a) ==
    IF NumRoundFrac100(a) >= 100 THEN NumFloor(a) + 1 ELSE NumFloor(a)

\* C24: whenever the result of toWords has a Paise clause, the number of
\* paise it words is between 1 and 99, and the number of rupees it words is
\* that of the amount rounded to 2 decimals (rounding the fraction never
\* gives 100 paise).
C24_PaiseBelowHundred ==
    (isFinite(num) /\ IndexOfWord(words, "Paise") # 0) =>
        LET ws == IF Head(words) = "Minus" THEN Tail(words) ELSE words
        IN  /\ PaiseWorded(ws) \in 1 .. 99
            /\ RupeesWorded(ws) = RupeesOfRounded(NumAbs(num))

\* what the code gives: the paise worded are the fraction times 100, rounded,
\* which is 100 for a fraction of .995 and more, beside the integer part
C24_PaiseAsCoded ==
    (isFinite(num) /\ IndexOfWord(words, "Paise") # 0) =>
        LET ws == IF Head(words) = "Minus" THEN Tail(words) ELSE words
        IN  /\ PaiseWorded(ws) = NumRoundFrac100(NumAbs(num))
            /\ PaiseWorded(ws) \in 1 .. 100
            /\ RupeesWorded(ws) = NumFloor(NumAbs(num))

(***************************************************************************)
(* The autosave while localStorage.setItem succeeds: a timer that is not   *)
(* cleared fires, one second after it was armed.                           *)
(***************************************************************************)
AutosaveNext ==
    \/ Mount
    \/ Unload
    \/ ChangeInvoiceNumber
    \/ ChangeRate
    \/ ItemChange
    \/ AddItem
    \/ RemoveItem
    \/ RemoveLogo
    \/ AutosaveWrite

SpecAutosave == Init /\ [][AutosaveNext]_vars

FairSpecAutosave == SpecAutosave /\ WF_vars(AutosaveWrite)

\* localStorage holds the draft of the invoice in memory
Persisted == storage = Draft("object", JSONstringify(invoice))

\* C25: while the page stays open and the writes succeed, the stored draft
\* eventually equals the invoice in memory (each change is followed by a
\* write once no further change cancels its timer); and the invoice loaded
\* at startup is armed for writing like a changed one, so it is written even
\* when no change ever happens.
C25_EventualPersistence ==
    /\ [][(~mounted /\ mounted') =>
             timers' = {[id |-> autoSaveTimeoutRef', invoice |-> invoice']}]_vars
    /\ [](mounted => <>(~mounted \/ Persisted))

\* the startup snapshot of a first visit has been written, no change made
C25_WitnessStartup ==
    /\ mounted /\ nextTimerId = 2 /\ timers = {}
    /\ invoice = getInitialInvoiceState
    /\ Persisted

(***************************************************************************)
(* The logo upload from the defaults: nothing is stored when the page is   *)
(* first opened.                                                           *)
(***************************************************************************)
UploadInitDefaults == Init /\ storage = NoDraft

SpecUploadFromDefaults == UploadInitDefaults /\ [][UploadNext]_vars

\* no read and no Image load is under way and the flag is not set
NoUploadInProgress == ~isLogoUploading /\ readers = 0 /\ images = <<>>

\* C26: in every state reached from the defaults through logo uploads
\* (successful or failed) and logo removals, whenever no upload is in
\* progress and the logo is absent, themeColor is the default theme colour.
C26_LogoThemeConsistency ==
    (mounted /\ NoUploadInProgress /\ invoice.logo = null) =>
        invoice.themeColor = DEFAULT_THEME_COLOR

\* what the code keeps: only a failed read leaves an absent logo with a
\* theme colour that is not the default
C26_OnlyFailedReadBreaks ==
    [][(mounted /\ mounted' /\ ~ReaderError
           /\ (invoice.logo = null => invoice.themeColor = DEFAULT_THEME_COLOR))
          => (invoice'.logo = null => invoice'.themeColor = DEFAULT_THEME_COLOR)]_vars

====
